---------------------------- MODULE Spec2Model ----------------------------
(***************************************************************************)
(* Label-correction training loop of src/animal/train.py (main).          *)
(*                                                                         *)
(* The state is the loop's state: the epoch counter, the dataset's label  *)
(* array (trainset.targets), the prediction history buffer                *)
(* (output_record), the validation ledger (val_record), the selected      *)
(* epoch average (output_selected) and the threshold (current_thd).       *)
(*                                                                         *)
(* Numbers.  A probability is an integer number of 1/Scale; a row of the  *)
(* selected-epoch average is kept as the SUM of the K selected rows, i.e. *)
(* in units of 1/(Scale*K).  A NaN row is a row of -1.  The threshold is  *)
(* an IEEE-754 double: <<t, d>> stands for the double t/10 + d*u with     *)
(* u = 1/(10 * 2^56), which is exact for every double the loop computes   *)
(* from 0.3 and 0.1 (0.1 = <<1, 4>>, 0.3 = <<3, -8>>, 1.0 = <<10, 0>>).   *)
(***************************************************************************)
EXTENDS Integers, Sequences, FiniteSets, TLC

\* ------------------------------------------------------------------ bounds
\* Number of training examples the model follows (a sample of trainset).
NumEx == 2
\* len(trainset); only TrainSize % batch_size matters to the model.
TrainSize == 130
\* Largest value of args.nepoch explored.
MaxEpoch == 49
\* Irregular events (a change of the network's predictions, an off-curve
\* validation accuracy, a tracked example in the dropped batch) per run.
MaxIrregular == 1
\* The selector alone is checked on a ledger of LedgerLen slots, filled for
\* up to MaxLedgerEpoch epochs.
LedgerLen == 3
MaxLedgerEpoch == 5

\* ------------------------------------------------------- program constants
batch_size == 128
num_class == 10
\* np.argsort(val_record)[-10:]
K == 10
\* if epoch >= 40  (faulty variant: a warm-up of 20 epochs)
WarmUpMut == 2 * K
WarmUp == 40
\* output_record = torch.zeros([30, ...]), val_record = torch.zeros([30]),
\* and the two "% 30"  (faulty variant: a ring of 50 slots, deeper than the
\* warm-up).
HMut == WarmUp + K
H == 30
\* Probability unit: a softmax row sums to Scale.
Scale == 20

Examples == 1..NumEx
Classes == 0..(num_class - 1)
Slots == 0..(H - 1)

\* ----------------------------------------------------- doubles in [0.125, 2)
\* 2^n mod 10 for n >= 1.
Pow2Mod10(n) == CASE n % 4 = 1 -> 2 [] n % 4 = 2 -> 4 [] n % 4 = 3 -> 8 [] OTHER -> 6

\* x < y for doubles <<t, d>> (|d*u| is far below 1/10).
DLess(x, y) == x[1] < y[1] \/ (x[1] = y[1] /\ x[2] < y[2])

\* log2 of (ulp / 2^-56) of the binade holding t/10 + d*u.
UlpExp(x) ==
  IF x[1] <= 2 THEN 1
  ELSE IF DLess(x, <<5, 0>>) THEN 2
  ELSE IF DLess(x, <<10, 0>>) THEN 3 ELSE 4

\* (t * 2^56 + d) mod (10 * 2^m): the position of the real number x, in
\* units of u, within a window of 2^m/2^56.
PosMod(x, m) ==
  (((x[1] * Pow2Mod10(56 - m)) % 10) * (2 ^ m) + x[2]) % (10 * 2 ^ m)

\* Round the real number x to the nearest double, ties to even.
RoundDouble(x) ==
  LET m    == UlpExp(x)
      ulp  == 10 * 2 ^ m
      rem  == PosMod(x, m)
      odd  == PosMod(x, m + 1) - rem >= ulp
      down == <<x[1], x[2] - rem>>
      up   == <<x[1], x[2] - rem + ulp>>
  IN  IF 2 * rem < ulp THEN down
      ELSE IF 2 * rem > ulp THEN up
      ELSE IF odd THEN up ELSE down

\* Python float addition.
DAdd(x, y) == RoundDouble(<<x[1] + y[1], x[2] + y[2]>>)

DOne == <<10, 0>>
DMin(x, y) == IF DLess(y, x) THEN y ELSE x

\* current_thd: float = 0.3 ; thd_increment: float = 0.1
InitThd == <<3, -8>>
thd_increment == <<1, 4>>


\* ------------------------------------------------------------------- state
VARIABLES
  pc,              \* "train" | "validate" | "correct" | "done" | "failed"
  epoch,           \* the loop variable of "for epoch in range(args.nepoch)"
  targets,         \* trainset.targets
  output_record,   \* [slot][example] = softmax row (zeros at construction)
  val_record,      \* [slot] = validation accuracy (zeros at construction)
  output_selected, \* [example] = K * (mean row over the selected slots)
  current_thd,     \* the threshold, a double
  best_acc,        \* best validation accuracy so far
  best_epoch,      \* its epoch
  mode,            \* the network's current prediction behaviour (its weights)
  budget,          \* irregular events still allowed in this run
  \* history variables (not read by the program)
  original,        \* the labels at construction
  pred_epoch,      \* [slot][example] = epoch that wrote the row, -1 if none
  val_epoch,       \* [slot] = epoch that wrote the ledger slot, -1 if none
  train_epoch,     \* epoch of the last completed training pass, -1 if none
  ind,             \* slots selected for the last correction
  y_tilde,         \* label array passed to the last engine call
  thd_used,        \* threshold passed to the last engine call
  y_corrected,     \* labels returned by the last engine call
  corr_epoch,      \* epoch of the last engine call, -1 if none
  n_corr,          \* engine calls completed so far
  \* the validation ledger and epoch selector on their own
  ledger,          \* [slot] = accuracy (zeros at construction)
  led_epoch,       \* epochs recorded so far
  sel_k,           \* k of the last selection, 0 if none
  sel_ledger,      \* the ledger the last selection read
  selected         \* the slots it returned

dvars == <<pc, epoch, targets, output_record, val_record, output_selected,
           current_thd, best_acc, best_epoch, mode, budget, original,
           pred_epoch, val_epoch, train_epoch, ind, y_tilde, thd_used,
           y_corrected, corr_epoch, n_corr>>

svars == <<ledger, led_epoch, sel_k, sel_ledger, selected>>

vars == <<dvars, svars>>

\* ---------------------------------------------------------- network output
Vec(a, b, c, z) ==
  [k \in Classes |-> CASE k = 0 -> a [] k = 1 -> b [] k = 2 -> c
                       [] k = num_class - 1 -> z [] OTHER -> 0]

ZeroRow == [k \in Classes |-> 0]
NaNRow == [k \in Classes |-> -1]
IsNaN(row) == \E k \in DOMAIN row : row[k] < 0

\* Softmax rows the network can produce (each sums to Scale): all mass on
\* class 0, all mass on class 1, the row (0.2, 0.75, 0.05), and a row whose
\* two best classes tie.
ProbVecs ==
  << Vec(Scale, 0, 0, 0), Vec(0, Scale, 0, 0),
     Vec(4, 15, 1, 0), Vec(2, 9, 0, 9) >>

\* Mode 0 is a diverged network (NaN weights, NaN logits); modes 1..4 are
\* trained ones.  The run starts from mode 1.
Modes == 0..Len(ProbVecs)
InitModes == {1}

\* F.softmax(outputs.detach().cpu(), dim = 1), the row of example i.
Softmax(m, i) ==
  IF m = 0 THEN NaNRow ELSE ProbVecs[((m + i - 2) % Len(ProbVecs)) + 1]

\* The examples whose batch ran before the step that changed the network
\* from mode `old` to mode m.  Only a divergence is followed within the
\* epoch: the batches before the diverging step still got the old rows.
EarlySets(old, m) == IF m = 0 /\ old # 0 THEN SUBSET Examples ELSE {{}}

\* ------------------------------------------------------------- data loader
\* DataLoader(..., shuffle = True, drop_last = True): the examples of the
\* last, incomplete batch of the shuffled order are not iterated.  Any
\* TrainSize % batch_size examples can be those.
DropCount == TrainSize % batch_size
DropSets == {D \in SUBSET Examples : Cardinality(D) <= DropCount}

\* Slot of an epoch in a ring of h slots; output_record and val_record are
\* indexed "epoch % 30".
SlotOf(e, h) == e % h
Slot(e) == SlotOf(e, H)

\* -------------------------------------------------------------- validation
\* val_correct / val_total * 100: the regular learning curve, and the
\* off-curve values (a collapse, a perfect epoch, a tie with the previous
\* epoch's regular value).
BaseAcc(e) == 10 + e
ValChoices(e) == {BaseAcc(e), 0, 100, BaseAcc(e) - 1}

Cost(b) == IF b THEN 1 ELSE 0

\* ---------------------------------------------------------- epoch selector
\* np.argsort(val_record)[-10:], as a set of slots.  argsort's default sort
\* is not stable, so among equal values any order can come out: every set
\* of k slots of which none holds less than an excluded slot is possible.
CountAbove(rec, s) == Cardinality({t \in DOMAIN rec : rec[t] > rec[s]})
CountAtLeast(rec, s) == Cardinality({t \in DOMAIN rec : rec[t] >= rec[s]})

\* Faulty variant: np.argsort(val_record)[:k], the k lowest.
BottomKSets(rec, k) ==
  LET sure == {s \in DOMAIN rec :
                 Cardinality({t \in DOMAIN rec : rec[t] <= rec[s]}) <= k}
      edge == {s \in DOMAIN rec :
                 Cardinality({t \in DOMAIN rec : rec[t] < rec[s]}) < k} \ sure
  IN  {sure \cup T : T \in {U \in SUBSET edge :
                              Cardinality(U) = k - Cardinality(sure)}}

TopKSets(rec, k) ==
  LET sure == {s \in DOMAIN rec : CountAtLeast(rec, s) <= k}
      edge == {s \in DOMAIN rec : CountAbove(rec, s) < k} \ sure
  IN  {sure \cup T : T \in {U \in SUBSET edge :
                              Cardinality(U) = k - Cardinality(sure)}}

\* output_record[ind].mean(0), times K: the sum of the selected rows, a NaN
\* row making the sum NaN.
RECURSIVE SumRows(_, _, _, _, _)
SumRows(rec, S, i, k, n) ==
  IF n = 0 THEN 0
  ELSE SumRows(rec, S, i, k, n - 1)
         + (IF (n - 1) \in S THEN rec[n - 1][i][k] ELSE 0)

SelectedMean(rec, S) ==
  [i \in Examples |->
     IF \E s \in S : IsNaN(rec[s][i]) THEN NaNRow
     ELSE [k \in Classes |-> SumRows(rec, S, i, k, H)]]

\* ------------------------------------------------- label correction engine
\* utils.lrt_correction(y_tilde, f_x, current_thd, thd_increment).
\* The class c # a with the largest f_x[i, c] (the first one on a tie).
BestOther(row, a) ==
  CHOOSE c \in Classes \ {a} :
    \A d \in Classes \ {a} : row[c] > row[d] \/ (row[c] = row[d] /\ c <= d)

Margin(row, a) == row[BestOther(row, a)] - row[a]

\* margin > current_thd, the margin being mg / (Scale * K) and the threshold
\* the double t/10 + d*u.
Exceeds(mg, thd) ==
  \/ mg * 10 > thd[1] * Scale * K
  \/ mg * 10 = thd[1] * Scale * K /\ thd[2] < 0

\* A malformed row of the input: a label that is no class, a NaN row.
Malformed(y, f, i) == y[i] \notin Classes \/ IsNaN(f[i])

Fails(y, f) == DOMAIN y # DOMAIN f \/ \E i \in DOMAIN y : Malformed(y, f, i)

Revised(y, f, thd, i) ==
  IF Exceeds(Margin(f[i], y[i]), thd) THEN BestOther(f[i], y[i]) ELSE y[i]

\* The engine's own label array when it stops: on a failure the rows before
\* the first malformed one are already revised.
Working(y, f, thd) ==
  [i \in DOMAIN y |->
     IF \E j \in DOMAIN y : j <= i /\ (j \notin DOMAIN f \/ Malformed(y, f, j))
     THEN y[i] ELSE Revised(y, f, thd, i)]

NewThreshold(thd, inc) == DMin(DAdd(thd, inc), DOne)

lrt_correction(y, f, thd, inc) == <<Working(y, f, thd), NewThreshold(thd, inc)>>

\* ------------------------------------------------------------ construction
\* Labels the dataset can hold at construction (a sample of the classes).
InitLabels == {0, 1}

Init ==
  /\ pc = "train"
  /\ epoch = 0
  /\ targets \in [Examples -> InitLabels]
  /\ original = targets
  /\ output_record = [s \in Slots |-> [i \in Examples |-> ZeroRow]]
  /\ val_record = [s \in Slots |-> 0]
  /\ output_selected = [i \in Examples |-> ZeroRow]
  /\ current_thd = InitThd
  /\ best_acc = 0
  /\ best_epoch = 0
  /\ mode \in InitModes
  /\ budget = MaxIrregular
  /\ pred_epoch = [s \in Slots |-> [i \in Examples |-> -1]]
  /\ val_epoch = [s \in Slots |-> -1]
  /\ train_epoch = -1
  /\ ind = {}
  /\ y_tilde = targets
  /\ thd_used = InitThd
  /\ y_corrected = targets
  /\ corr_epoch = -1
  /\ n_corr = 0
  /\ ledger = [s \in 0..(LedgerLen - 1) |-> 0]
  /\ led_epoch = 0
  /\ sel_k = 0
  /\ sel_ledger = ledger
  /\ selected = {}

\* args.nepoch
nepoch == MaxEpoch

\* ------------------------------------------------------------ training pass
\* Lines 88-110: every batch the loader yields is trained on and its rows are
\* written to slot epoch % 30; the examples of the dropped batch keep what
\* the slot held.  The optimizer steps may change the network (mode).
\* (Every yielded batch has batch_size images, so line 95 never skips one.)
\* (With TrainSize < batch_size no batch is yielded and line 110 divides by
\* zero; TrainSize is kept at or above batch_size.)
Train ==
  /\ pc = "train"
  /\ epoch < nepoch
  /\ \E m \in Modes, D \in DropSets : \E G \in EarlySets(mode, m) :
       /\ mode = 0 => m = 0
       /\ Cost(m # mode) + Cost(D # {}) <= budget
       /\ mode' = m
       /\ budget' = budget - Cost(m # mode) - Cost(D # {})
       /\ output_record' =
            [output_record EXCEPT ![Slot(epoch)] =
               [i \in Examples |->
                  IF i \in D THEN output_record[Slot(epoch)][i]
                  ELSE IF i \in G THEN Softmax(mode, i)
                  ELSE Softmax(m, i)]]
       /\ pred_epoch' =
            [pred_epoch EXCEPT ![Slot(epoch)] =
               [i \in Examples |->
                  IF i \in D THEN pred_epoch[Slot(epoch)][i] ELSE epoch]]
  /\ train_epoch' = epoch
  /\ pc' = "validate"
  /\ UNCHANGED <<epoch, targets, val_record, output_selected, current_thd,
                 best_acc, best_epoch, original, val_epoch, ind, y_tilde,
                 thd_used, y_corrected, corr_epoch, n_corr>>
  /\ UNCHANGED svars

\* ---------------------------------------------------------- validation pass
\* Lines 112-130.
Validate ==
  /\ pc = "validate"
  /\ \E v \in ValChoices(epoch) :
       /\ Cost(v # BaseAcc(epoch)) <= budget
       /\ budget' = budget - Cost(v # BaseAcc(epoch))
       /\ val_record' = [val_record EXCEPT ![Slot(epoch)] = v]
       /\ best_acc' = IF v > best_acc THEN v ELSE best_acc
       /\ best_epoch' = IF v > best_acc THEN epoch ELSE best_epoch
  /\ val_epoch' = [val_epoch EXCEPT ![Slot(epoch)] = epoch]
  /\ pc' = "correct"
  /\ UNCHANGED <<epoch, targets, output_record, output_selected, current_thd,
                 mode, original, pred_epoch, train_epoch, ind, y_tilde,
                 thd_used, y_corrected, corr_epoch, n_corr>>
  /\ UNCHANGED svars

\* --------------------------------------------------------------- correction
\* The label array handed to the engine: np.array(trainset.targets).copy().
EngineLabels == targets

\* The threshold handed to the engine: current_thd = current_thd.
\* (Faulty variant: current_thd = thd_increment.)
ThresholdArgMut == thd_increment
ThresholdArg == current_thd

\* The dataset's label array while the engine works on `work`: the engine
\* was given a copy, so the dataset's own array is not touched.
\* (Faulty variant: the engine is given trainset.targets itself.)
LabelsDuringCallMut(work) == work
LabelsDuringCall(work) == targets

\* trainset.update_corrupted_label(y): the dataset's label array becomes y.
update_corrupted_label(y) == y

\* y_corrected, current_thd = lrt_correction(...)
\* (Faulty variant: current_thd, y_corrected = lrt_correction(...).)
UnpackMut(res) == <<res[2], res[1]>>
Unpack(res) == res

\* Lines 132-143 for epoch >= 40.  ind is only read here: before the warm-up
\* epoch line 135 prints the selected values, which do not depend on how
\* ties are ordered.
Correction ==
  /\ pc = "correct"
  /\ epoch >= WarmUp
  /\ \E S \in TopKSets(val_record, K) :
     \E f \in {SelectedMean(output_record, S)} :
     \E y \in {EngineLabels} :
     \E res \in {Unpack(lrt_correction(y, f, ThresholdArg, thd_increment))} :
           /\ ind' = S
           /\ output_selected' = f
           /\ y_tilde' = y
           /\ thd_used' = ThresholdArg
           /\ corr_epoch' = epoch
           /\ IF Fails(y, f)
              THEN \* the engine raises: line 141 is not reached, main ends
                   /\ pc' = "failed"
                   /\ targets' = LabelsDuringCall(res[1])
                   /\ UNCHANGED <<epoch, current_thd, y_corrected, n_corr>>
              ELSE \* trainset.update_corrupted_label(y_corrected)
                   /\ pc' = "train"
                   /\ targets' = update_corrupted_label(res[1])
                   /\ y_corrected' = res[1]
                   /\ current_thd' = res[2]
                   /\ n_corr' = n_corr + 1
                   /\ epoch' = epoch + 1
  /\ UNCHANGED <<output_record, val_record, best_acc, best_epoch, mode,
                 budget, original, pred_epoch, val_epoch, train_epoch>>
  /\ UNCHANGED svars

\* Lines 132-143 for epoch < 40: nothing but scheduler.step().
NoCorrection ==
  /\ pc = "correct"
  /\ epoch < WarmUp
  /\ epoch' = epoch + 1
  /\ pc' = "train"
  /\ UNCHANGED <<targets, output_record, val_record, output_selected,
                 current_thd, best_acc, best_epoch, mode, budget, original,
                 pred_epoch, val_epoch, train_epoch, ind, y_tilde, thd_used,
                 y_corrected, corr_epoch, n_corr>>
  /\ UNCHANGED svars

\* The loop ends when epoch reaches args.nepoch; lines 145-162 test the best
\* weights.  A run with a smaller args.nepoch is a prefix of this one.
Finish ==
  /\ pc = "train"
  /\ epoch = nepoch
  /\ pc' = "done"
  /\ UNCHANGED <<epoch, targets, output_record, val_record, output_selected,
                 current_thd, best_acc, best_epoch, mode, budget, original,
                 pred_epoch, val_epoch, train_epoch, ind, y_tilde, thd_used,
                 y_corrected, corr_epoch, n_corr>>
  /\ UNCHANGED svars

Next == Train \/ Validate \/ Correction \/ NoCorrection \/ Finish

Spec == Init /\ [][Next]_vars

\* ------------------------------------- the ledger and the selector alone
\* Accuracies recorded in the small ledger.
LedgerVals == {10, 20, 30, 50}

\* Line 125 of the next epoch, on a ring of LedgerLen slots:
\* val_record[epoch % 30] = val_acc.  The previous epoch's ind is dead.
LedgerRecord ==
  /\ led_epoch < MaxLedgerEpoch
  /\ led_epoch = 0 \/ sel_k # 0
  /\ \E v \in LedgerVals :
       ledger' = [ledger EXCEPT ![SlotOf(led_epoch, LedgerLen)] = v]
  /\ led_epoch' = led_epoch + 1
  /\ sel_k' = 0
  /\ selected' = {}
  /\ UNCHANGED sel_ledger
  /\ UNCHANGED dvars

\* Line 132 of the same epoch, for any k: ind = np.argsort(val_record)[-k:]
LedgerTopK ==
  /\ led_epoch > 0
  /\ sel_k = 0
  /\ \E k \in 1..LedgerLen :
       /\ sel_k' = k
       /\ selected' \in TopKSets(ledger, k)
  /\ sel_ledger' = ledger
  /\ UNCHANGED <<ledger, led_epoch>>
  /\ UNCHANGED dvars

NextTopK == LedgerRecord \/ LedgerTopK

\* The driver's variables do not matter here: one dataset is enough.
InitTopK == Init /\ \A i \in Examples : targets[i] = 0

SpecTopK == InitTopK /\ [][NextTopK]_vars


\* ================================================================ claims
\* The last engine call returned (it did not raise).
CallReturned == n_corr > 0 /\ pc # "failed"

\* margin/(Scale*K) > t/10 + d*u, read off the two numbers directly.
AboveThreshold(mg, thd) ==
  ~ (mg * 10 < thd[1] * Scale * K
       \/ (mg * 10 = thd[1] * Scale * K /\ thd[2] >= 0))

\* The classes other than a that no other class other than a beats.
BestOthers(row, a) ==
  {c \in Classes \ {a} : \A d \in Classes \ {a} : row[c] >= row[d]}

\* C1: every correction that returns leaves, for every example i, the label
\* best_other (a class other than the label passed in with the largest
\* averaged probability) when its margin over the label passed in exceeds
\* the threshold held before the call, and the label passed in otherwise.
C1_RelabelRule ==
  [][n_corr' = n_corr + 1 =>
       \A i \in Examples :
         LET a    == targets[i]
             row  == output_selected'[i]
             best == BestOthers(row, a)
         IN  IF \E c \in best : AboveThreshold(row[c] - row[a], current_thd)
             THEN targets'[i] \in best
             ELSE targets'[i] = a]_vars

\* C1 witness: one call relabelled an example and kept another one whose
\* best other class was ahead by no more than the threshold.
C1_Witness ==
  /\ CallReturned
  /\ \E i \in Examples : y_corrected[i] # y_tilde[i]
  /\ \E j \in Examples :
       /\ y_corrected[j] = y_tilde[j]
       /\ Margin(output_selected[j], y_tilde[j]) > 0

\* C2: the threshold changes only in a correction that returns, which
\* replaces it by min(old + thd_increment, 1.0); it never decreases and never
\* exceeds 1.0.
C2_ThresholdMonotone ==
  [][/\ current_thd' # current_thd => pc = "correct" /\ n_corr' = n_corr + 1
     /\ n_corr' = n_corr + 1 =>
          current_thd' = DMin(DAdd(current_thd, thd_increment), DOne)
     /\ ~ DLess(current_thd', current_thd)
     /\ ~ DLess(DOne, current_thd')]_vars

\* C2 witness: the threshold has grown to 1.0 and a further call left it there.
C2_Witness == current_thd = DOne /\ thd_used = DOne /\ CallReturned

\* C3: every engine call is handed the labels captured before any correction.
C3_EngineGetsOriginal == corr_epoch >= 0 => y_tilde = original

\* C4: after the training pass of epoch e, slot e mod H holds for every
\* example a row written during epoch e.
C4_SlotHoldsEpoch ==
  pc = "validate" => \A i \in Examples : pred_epoch[Slot(epoch)][i] = epoch

\* C5: on a ledger of distinct values the selection is exactly the k slots
\* holding the k highest values.
C5_TopKDistinct ==
  (sel_k > 0 /\ \A s, t \in DOMAIN sel_ledger :
                  s # t => sel_ledger[s] # sel_ledger[t])
    => /\ Cardinality(selected) = sel_k
       /\ selected \subseteq DOMAIN sel_ledger
       /\ \A s \in selected : \A t \in DOMAIN sel_ledger \ selected :
            sel_ledger[s] > sel_ledger[t]

\* C5 witness: values 10, 50, 30 at slots 0, 1, 2 and k = 2 select {1, 2}.
C5_Witness ==
  /\ sel_k = 2
  /\ sel_ledger[0] = 10 /\ sel_ledger[1] = 50 /\ sel_ledger[2] = 30
  /\ selected = {1, 2}

\* C6: no correction before epoch 40 (labels and threshold stay initial);
\* from epoch 40 on exactly one call per epoch, made after that epoch's
\* training and validation passes, whose labels are the dataset's when the
\* next epoch trains.
C6_WarmUp ==
  /\ [](epoch < 40 =>
          corr_epoch = -1 /\ n_corr = 0 /\ targets = original
            /\ current_thd = InitThd)
  /\ []((pc = "train" /\ epoch > 40) =>
          corr_epoch = epoch - 1 /\ n_corr = epoch - 40
            /\ targets = y_corrected)
  /\ [][corr_epoch' # corr_epoch =>
          /\ pc = "correct" /\ corr_epoch' = epoch /\ epoch >= 40
          /\ train_epoch = epoch /\ val_epoch[Slot(epoch)] = epoch
          /\ pc' = "train" => epoch' = epoch + 1 /\ targets' = y_corrected']_vars
  /\ [][targets' # targets => corr_epoch' # corr_epoch]_vars

\* C6 witness: the call of epoch 40 changed a label and epoch 41 trains on it.
C6_Witness ==
  pc = "validate" /\ epoch = 41 /\ corr_epoch = 40 /\ targets # original

\* C7: a correction that fails leaves the dataset's labels as they were.
C7_FailedCallKeepsLabels == [][pc' = "failed" => targets' = targets]_vars

\* C7 witness: a call failed after the engine had revised a label in its own
\* array.
C7_Witness ==
  pc = "failed" /\ Working(y_tilde, output_selected, thd_used) # targets

\* C8: the dataset holds one valid class index per example.
C8_LabelsValid == targets \in [Examples -> Classes]

\* C8 witness: a correction has rewritten a label.
C8_Witness == CallReturned /\ targets # original

\* C9: at every correction all H ledger slots have been written, slot s by
\* the latest epoch e <= E with e mod H = s, and the K selected slots are K
\* slots, hence K distinct epochs among the H most recent.
C9_LedgerFull ==
  (corr_epoch >= 0 /\ pc \in {"train", "failed"}) =>
    /\ \A s \in Slots :
         /\ val_epoch[s] >= 0 /\ val_epoch[s] % H = s
         /\ val_epoch[s] <= corr_epoch /\ val_epoch[s] > corr_epoch - H
    /\ ind \subseteq Slots
    /\ Cardinality({val_epoch[s] : s \in ind}) = K

\* C9 witness: a correction selected a slot that is not among the ten latest
\* epochs.
C9_Witness ==
  /\ corr_epoch >= 0 /\ pc = "train"
  /\ \E s \in ind : val_epoch[s] <= corr_epoch - K

\* C10: a correction made with the threshold at 1.0 returns the original
\* labels.
C10_SaturatedRestoresOriginal ==
  (CallReturned /\ thd_used = DOne) => y_corrected = original

=============================================================================
